---- MODULE Spec2Model ----
(***************************************************************************)
(* Model of pyplaner/optimize_pdf.py: the post-processing optimizer that   *)
(* deduplicates Image XObjects, rewrites references to the duplicates,     *)
(* strips /ProcSet entries and merges identical Form XObjects of a         *)
(* pikepdf document.                                                       *)
(*                                                                         *)
(* The document is an arena of objects keyed by a handle (a string).  An   *)
(* indirect object carries its object number in "num"; an inline object    *)
(* has num = 0, so that its objgen is the placeholder (0, 0) pikepdf       *)
(* reports for every inline object.  A dictionary, an array and the        *)
(* dictionary of a stream keep their entries in "ents", in key order.      *)
(***************************************************************************)
EXTENDS Integers, Sequences, FiniteSets, TLC

VARIABLES
    objs,               \* the document: handle -> object (mutated in place)
    pc,                 \* position in optimize_pdf
    plan,               \* the stage calls still to make, in order
    run,                \* how many times optimize_pdf has been entered
    scanIdx,            \* position of "for obj in pdf.objects"
    pageIdx,            \* position of "for page in pdf.pages"
    image_hash_map,     \* digest -> canonical image handle
    image_replacements, \* objgen of a duplicate -> canonical image handle
    visited,            \* objgens entered by _walk
    form_hash_map,      \* digest -> canonical form handle
    input,              \* history: the parameters of the document handed in
    mid,                \* history: the document when the current stage began
    hist,               \* history: the document after each completed run
    form_replaced,      \* history: <<old, new>> of every form entry rewritten
    walked              \* history: the objects _walk entered in this pass

vars == <<objs, pc, plan, run, scanIdx, pageIdx, image_hash_map,
          image_replacements, visited, form_hash_map, input, mid, hist,
          form_replaced, walked>>

(***************************************************************************)
(* Bounds of the model.                                                    *)
(***************************************************************************)
\* distinct decoded payloads an image may carry
MaxPayload == 2
\* calls of optimize_pdf on the same document
MaxRuns == 2
\* frames _process_resources may nest before Python raises RecursionError
RecursionLimit == 4

(***************************************************************************)
(* Objects.                                                                *)
(***************************************************************************)
null == "null"

\* one entry of a dictionary or one element of an array; bad: reading it raises
E(k, v) == [k |-> k, v |-> v, bad |-> FALSE]
Bad(k, v) == [k |-> k, v |-> v, bad |-> TRUE]

Dict(num, ents) ==
    [kind |-> "dict", num |-> num, ents |-> ents, subtype |-> "",
     payload |-> <<>>, filter |-> "", rawOk |-> FALSE, decOk |-> FALSE]

Array(num, ents) ==
    [kind |-> "array", num |-> num, ents |-> ents, subtype |-> "",
     payload |-> <<>>, filter |-> "", rawOk |-> FALSE, decOk |-> FALSE]

NameObj ==
    [kind |-> "name", num |-> 0, ents |-> <<>>, subtype |-> "",
     payload |-> <<>>, filter |-> "", rawOk |-> FALSE, decOk |-> FALSE]

\* how a stream's payload is stored: storage decides which read succeeds
Storages == {"plain", "flate", "packed", "broken"}

Stream(num, subtype, ents, payload, storage) ==
    [kind |-> "stream", num |-> num, ents |-> ents, subtype |-> subtype,
     payload |-> payload,
     filter |-> IF storage = "plain" THEN "" ELSE "/FlateDecode",
     rawOk |-> storage \in {"plain", "flate"},
     decOk |-> storage # "broken"]

\* obj.objgen: (number, generation), (0, 0) for every inline object
objgen(o) == <<o.num, 0>>

\* d.get(key): the handle stored under key, or null
Get(o, key) ==
    IF \E i \in 1..Len(o.ents) : o.ents[i].k = key
    THEN o.ents[CHOOSE i \in 1..Len(o.ents) : o.ents[i].k = key].v
    ELSE null

\* "/Image" in str(subtype), over the subtype names of the model
SubtypeHas(subtype, word) == subtype = word

(***************************************************************************)
(* Stream bytes and digests.                                               *)
(***************************************************************************)
\* the stored bytes of a payload under a filter (zlib data opens with 0x78)
Encode(filter, payload) ==
    IF filter = "" THEN payload ELSE <<120>> \o payload

\* _stream_content_bytes: the stored bytes, else the decoded bytes, else raise
_stream_content_bytes(o) ==
    IF o.rawOk THEN [ok |-> TRUE, bytes |-> Encode(o.filter, o.payload)]
    ELSE IF o.decOk THEN [ok |-> TRUE, bytes |-> o.payload]
    ELSE [ok |-> FALSE, bytes |-> <<>>]

\* hashlib.sha256(raw).digest(): collision-free on the byte strings in play
sha256(bytes) == <<"sha256", bytes>>

(***************************************************************************)
(* The documents handed to optimize_pdf.  A document has two pages, three  *)
(* image streams I1..I3, two mask images M1, M2, the forms F1, F2 (one per *)
(* page), a form G nested in F1, a tiling pattern PT with an image and a   *)
(* form H in its own resources, a shared /ProcSet array and the page tree. *)
(* The parameters decide payloads, storage and which copy each entry       *)
(* references; an object no entry references is an orphan that pdf.objects *)
(* still enumerates.                                                       *)
(***************************************************************************)
Payloads == {<<i>> : i \in 1..MaxPayload}
MaskPayloads == {<<10>>, <<11>>}

\* pdf.objects: the indirect objects, by object number
ObjOrder == <<"I1", "I2", "I3", "M1", "M2", "F1", "F2", "G", "H", "PT", "PS",
              "Pg1", "Pg2", "Pages">>

\* pdf.pages
PageOrder == <<"Pg1", "Pg2">>

Num(h) == CHOOSE i \in 1..Len(ObjOrder) : ObjOrder[i] = h

Opt(cond, ents) == IF cond THEN ents ELSE <<>>

Doc(p) ==
    [h \in {"I1", "I2", "I3", "M1", "M2", "F1", "F2", "G", "H", "PT", "PS",
            "Pg1", "Pg2", "Pages", "Kids", "Res1", "Res2", "XO1", "XO2",
            "FR1", "FR2", "FX1", "FX2", "GR", "GX", "HR", "PatD", "PTR",
            "PTX", "NmPDF", "D1", "D2", "D3", "D4", "A1"} |->
     CASE h = "I1" ->
            Stream(Num(h), "/Image", Opt(p.m1 # null, <<E("SMask", p.m1)>>),
                   <<1>>, p.s1)
       [] h = "I2" ->
            Stream(Num(h), "/Image", Opt(p.m2 # null, <<E("SMask", p.m2)>>),
                   p.b2, p.s2)
       [] h = "I3" -> Stream(Num(h), "/Image", <<>>, p.b3, p.s3)
       [] h = "M1" -> Stream(Num(h), "/Image", <<>>, <<10>>, "plain")
       [] h = "M2" -> Stream(Num(h), "/Image", <<>>, p.bm, "plain")
       [] h = "F1" ->
            Stream(Num(h), "/Form", <<E("Resources", "FR1")>>, <<5>>, "plain")
       [] h = "F2" ->
            Stream(Num(h), "/Form", <<E("Resources", "FR2")>>, p.c2, p.sf)
       [] h = "G" ->
            Stream(Num(h), "/Form", <<E("Resources", "GR")>>, p.cg, "plain")
       [] h = "H" ->
            Stream(Num(h), "/Form", <<E("Resources", "HR")>>, <<6>>, "plain")
       [] h = "PT" ->
            Stream(Num(h), "", <<E("Resources", "PTR")>>, <<3>>, "plain")
       [] h = "PS" -> Array(Num(h), <<E("0", "NmPDF")>>)
       [] h = "NmPDF" -> NameObj
       [] h = "Pg1" ->
            Dict(Num(h), Opt(p.tree, <<E("Parent", "Pages")>>)
                         \o <<E("Resources", "Res1")>>)
       [] h = "Pg2" ->
            Dict(Num(h), Opt(p.tree, <<E("Parent", "Pages")>>)
                         \o <<E("Resources", "Res2")>>)
       [] h = "Pages" -> Dict(Num(h), <<E("Kids", "Kids")>>)
       [] h = "Kids" -> Array(0, <<E("0", "Pg1"), E("1", "Pg2")>>)
       [] h = "Res1" ->
            Dict(0, Opt(p.ps, <<E("ProcSet", "PS")>>)
                    \o <<E("XObject", "XO1")>>
                    \o Opt(p.pat, <<E("Pattern", "PatD")>>)
                    \o Opt(p.deep, <<E("ExtGState", "D1")>>))
       [] h = "Res2" -> Dict(0, <<E("XObject", "XO2")>>)
       [] h = "XO1" ->
            Dict(0, <<E("Im0", p.x1)>> \o Opt(p.forms, <<E("Fm0", "F1")>>))
       [] h = "XO2" ->
            Dict(0, <<E("Im0", p.x2)>> \o Opt(p.forms, <<E("Fm0", "F2")>>))
       [] h = "FR1" ->
            Dict(0, Opt(p.ps, <<E("ProcSet", "PS")>>)
                    \o <<E("XObject", "FX1")>>)
       [] h = "FR2" ->
            Dict(0, <<E("XObject", "FX2"), E("ProcSet", "PS")>>)
       [] h = "FX1" ->
            Dict(0, <<E("Im0", p.fi1)>>
                    \o Opt(p.nest # "none", <<E("Fm1", "G")>>))
       [] h = "FX2" -> Dict(0, <<E("Im0", p.fi2)>>)
       [] h = "GR" ->
            Dict(0, <<E("ProcSet", "PS"), E("XObject", "GX")>>)
       [] h = "GX" -> Dict(0, Opt(p.nest = "cycle", <<E("Fm0", "F1")>>))
       [] h = "HR" -> Dict(0, <<E("ProcSet", "PS")>>)
       [] h = "PatD" -> Dict(0, <<E("P0", "PT")>>)
       [] h = "PTR" ->
            Dict(0, <<E("ProcSet", "PS"), E("XObject", "PTX")>>)
       [] h = "PTX" -> Dict(0, <<E("Im0", p.pi), E("Fm0", "H")>>)
       [] h = "D1" ->
            Dict(0, Opt(p.badd, <<Bad("Bx", p.di)>>)
                    \o <<E("Next", "D2"), E("Img", p.di)>>)
       [] h = "D2" -> Dict(0, <<E("Next", "D3")>>)
       [] h = "D3" -> Dict(0, <<E("Img", p.di), E("Arr", "A1")>>)
       [] h = "A1" ->
            Array(0, Opt(p.bada, <<Bad("b", p.di)>>)
                     \o <<E("0", p.di), E("1", "D4")>>)
       [] h = "D4" -> Dict(0, <<E("Img", p.di)>>)]

Base ==
    [b2 |-> <<1>>, b3 |-> <<1>>, s1 |-> "plain", s2 |-> "plain",
     s3 |-> "plain", m1 |-> null, m2 |-> null, bm |-> <<11>>, x1 |-> "I1",
     x2 |-> "I2",
     forms |-> FALSE, c2 |-> <<5>>, sf |-> "plain", fi1 |-> "I1",
     fi2 |-> "I2", nest |-> "none", cg |-> <<7>>, pat |-> FALSE,
     pi |-> "I3", ps |-> TRUE, tree |-> FALSE, deep |-> FALSE,
     badd |-> FALSE, bada |-> FALSE, di |-> "I3"]

\* payloads, storage and hashability of the page images
ImageDocs ==
    {[Base EXCEPT !.b2 = b2, !.b3 = b3, !.s1 = s1, !.s2 = s2, !.s3 = s3,
                  !.x1 = x1, !.x2 = x2] :
        b2 \in Payloads, b3 \in Payloads, s1 \in {"plain", "broken"},
        s2 \in Storages, s3 \in {"plain", "packed"}, x1 \in {"I1", "I3"},
        x2 \in {"I2", "I3"}}

\* images that carry soft masks
MaskDocs ==
    {[Base EXCEPT !.b3 = b3, !.m1 = m1, !.m2 = m2, !.bm = bm, !.x1 = x1,
                  !.x2 = x2] :
        b3 \in Payloads, m1 \in {null, "M1", "M2"}, m2 \in {null, "M2"},
        bm \in MaskPayloads, x1 \in {"I1", "I2", "I3"}, x2 \in {"I2", "I3"}}

\* one form per page, with a nested form and possibly a resource cycle
FormDocs ==
    {[Base EXCEPT !.forms = TRUE, !.b2 = b2, !.b3 = <<2>>, !.s2 = s2,
                  !.c2 = c2, !.sf = sf, !.fi2 = fi2, !.nest = nest,
                  !.cg = cg, !.ps = ps] :
        b2 \in Payloads, s2 \in {"plain", "flate"}, c2 \in {<<5>>, <<6>>},
        sf \in {"plain", "broken"},
        fi2 \in {"I2", "I3"}, nest \in {"none", "nested", "cycle"},
        cg \in {<<5>>, <<7>>}, ps \in BOOLEAN}

\* a tiling pattern on page 1 and the page tree
PatternDocs ==
    {[Base EXCEPT !.pat = TRUE, !.pi = pi, !.b2 = b2, !.b3 = b3, !.x2 = x2,
                  !.tree = tree, !.ps = ps] :
        pi \in {"I2", "I3"}, b2 \in Payloads, b3 \in Payloads,
        x2 \in {"I2", "I3"},
        tree \in BOOLEAN, ps \in BOOLEAN}

\* inline dictionaries and an inline array nested under the resources of
\* page 1, some of whose entries cannot be read
DeepDocs ==
    {[Base EXCEPT !.deep = TRUE, !.badd = badd, !.bada = bada, !.di = di,
                  !.b2 = b2, !.b3 = b3, !.x2 = x2, !.tree = tree] :
        badd \in BOOLEAN, bada \in BOOLEAN, di \in {"I2", "I3"},
        b2 \in Payloads, b3 \in Payloads, x2 \in {"I2", "I3"},
        tree \in BOOLEAN}

Params ==
    ImageDocs \cup MaskDocs \cup FormDocs \cup PatternDocs \cup DeepDocs


(***************************************************************************)
(* _deduplicate_images, first half: the replacement map.                   *)
(***************************************************************************)
EmptyMap == [x \in {} |-> null]

\* mutant: the latest object of a digest becomes canonical
RecordImageLastWins(hm, rp, g, h, digest) ==
    IF digest \notin DOMAIN hm
    THEN [hm |-> (digest :> h) @@ hm, rp |-> rp]
    ELSE [hm |-> (digest :> h) @@ hm,
          rp |-> (objgen(g[hm[digest]]) :> h) @@ rp]

\* mutant: "if" for "elif", the first occurrence is mapped as well
RecordImageNoElif(hm, rp, g, h, digest) ==
    LET hm1 == IF digest \notin DOMAIN hm THEN (digest :> h) @@ hm ELSE hm
    IN [hm |-> hm1, rp |-> (objgen(g[h]) :> hm1[digest]) @@ rp]

\* lines 163-166: first occurrence of a digest is canonical, a later object
\* of another identity is mapped to it
RecordImage(hm, rp, g, h, digest) ==
    IF digest \notin DOMAIN hm
    THEN [hm |-> (digest :> h) @@ hm, rp |-> rp]
    ELSE IF objgen(g[h]) # objgen(g[hm[digest]])
         THEN [hm |-> hm, rp |-> (objgen(g[h]) :> hm[digest]) @@ rp]
         ELSE [hm |-> hm, rp |-> rp]

\* mutant: a stream whose bytes cannot be read is hashed all the same
IsImageStream(o) ==
    /\ o.kind = "stream"
    /\ o.subtype # ""
    /\ SubtypeHas(o.subtype, "/Image")

\* lines 153-161: the object is an image stream whose bytes can be read
IsHashableImage(o) ==
    /\ o.kind = "stream"
    /\ o.subtype # ""
    /\ SubtypeHas(o.subtype, "/Image")
    /\ _stream_content_bytes(o).ok

\* the digest the optimizer computes for a stream
Digest(o) == sha256(_stream_content_bytes(o).bytes)

\* one iteration of "for obj in pdf.objects"
ScanBody(hm, rp, g, h) ==
    IF IsHashableImage(g[h])
    THEN RecordImage(hm, rp, g, h, Digest(g[h]))
    ELSE [hm |-> hm, rp |-> rp]

(***************************************************************************)
(* _deduplicate_images, second half: the walk from every page.  The walk   *)
(* threads the document, the visited set and the log of the objects it     *)
(* entered: st = [g, vis, log].                                            *)
(***************************************************************************)
RECURSIVE _walk(_, _, _), _replace_in_dict(_, _, _, _), WalkArray(_, _, _, _)

\* lines 195-198: which objgens enter the visited set
Tracked(og) == og # <<0, 0>>

\* mutant: the canonical object is stored under the first key of d
ReplaceInFirstEntry(st, rp, d, i) ==
    IF i > Len(st.g[d].ents) THEN st
    ELSE LET e == st.g[d].ents[i] IN
         IF e.bad THEN _replace_in_dict(st, rp, d, i + 1)
         ELSE IF objgen(st.g[e.v]) \in DOMAIN rp
         THEN _replace_in_dict(
                  [st EXCEPT !.g[d].ents[1].v = rp[objgen(st.g[e.v])]],
                  rp, d, i + 1)
         ELSE _replace_in_dict(_walk(st, rp, e.v), rp, d, i + 1)

\* lines 174-184, from the i-th key of list(d.keys()) on
_replace_in_dict(st, rp, d, i) ==
    IF i > Len(st.g[d].ents) THEN st
    ELSE LET e == st.g[d].ents[i] IN
         IF e.bad THEN _replace_in_dict(st, rp, d, i + 1)
         ELSE IF objgen(st.g[e.v]) \in DOMAIN rp
         THEN _replace_in_dict(
                  [st EXCEPT !.g[d].ents[i].v = rp[objgen(st.g[e.v])]],
                  rp, d, i + 1)
         ELSE _replace_in_dict(_walk(st, rp, e.v), rp, d, i + 1)

\* lines 204-213, from the i-th element on; one try encloses the whole loop.
\* The branch is taken for an array, the object kind its comment names
\* ("Array elements"), whatever hasattr(obj, "keys") answers for it.
WalkArray(st, rp, a, i) ==
    IF i > Len(st.g[a].ents) THEN st
    ELSE LET e == st.g[a].ents[i] IN
         IF e.bad THEN st
         ELSE IF objgen(st.g[e.v]) \in DOMAIN rp
         THEN WalkArray(
                  [st EXCEPT !.g[a].ents[i].v = rp[objgen(st.g[e.v])]],
                  rp, a, i + 1)
         ELSE WalkArray(_walk(st, rp, e.v), rp, a, i + 1)

\* mutant: a stream is a leaf, its dictionary is not entered
WalkSkipsStreams(st, rp, h) ==
    IF h = null THEN st
    ELSE LET og == objgen(st.g[h])
             st1 == [st EXCEPT
                        !.vis = IF Tracked(og) THEN @ \cup {og} ELSE @,
                        !.log = Append(@, h)]
         IN IF Tracked(og) /\ og \in st.vis THEN st
            ELSE IF st.g[h].kind = "dict"
                 THEN _replace_in_dict(st1, rp, h, 1)
                 ELSE IF st.g[h].kind = "array"
                      THEN WalkArray(st1, rp, h, 1)
                      ELSE st1

\* lines 186-213
_walk(st, rp, h) ==
    IF h = null THEN st
    ELSE LET og == objgen(st.g[h])
             st1 == [st EXCEPT
                        !.vis = IF Tracked(og) THEN @ \cup {og} ELSE @,
                        !.log = Append(@, h)]
         IN IF Tracked(og) /\ og \in st.vis THEN st
            ELSE IF st.g[h].kind \in {"stream", "dict"}
                 THEN _replace_in_dict(st1, rp, h, 1)
                 ELSE IF st.g[h].kind = "array"
                      THEN WalkArray(st1, rp, h, 1)
                      ELSE st1

(***************************************************************************)
(* _strip_and_dedup_resources.  The sanitizer threads the document, the    *)
(* form hash map, whether an exception is propagating, and the log of      *)
(* rewritten entries: st = [g, fhm, raised, log].                          *)
(***************************************************************************)
RECURSIVE _process_resources(_, _, _), ProcessXObjects(_, _, _, _)

\* mutant: the membership test never finds the key
StripNothing(ents) == ents

\* lines 237-238
StripProcSet(ents) == SelectSeq(ents, LAMBDA e : e.k # "ProcSet")

\* mutant: the latest form of a digest becomes the canonical one
MergeFormLastWins(st, xo, i, digest) ==
    LET x == st.g[xo].ents[i].v IN
    IF digest \notin DOMAIN st.fhm
    THEN [st EXCEPT !.fhm = (digest :> x) @@ @]
    ELSE IF objgen(st.g[x]) # objgen(st.g[st.fhm[digest]])
         THEN [st EXCEPT !.g[xo].ents[i].v = st.fhm[digest],
                         !.fhm = (digest :> x) @@ @,
                         !.log = @ \cup {<<x, st.fhm[digest]>>}]
         ELSE st

\* lines 262-266: first form of a digest is canonical, a later form of
\* another identity has its entry rewritten to the canonical one
MergeForm(st, xo, i, digest) ==
    LET x == st.g[xo].ents[i].v IN
    IF digest \notin DOMAIN st.fhm
    THEN [st EXCEPT !.fhm = (digest :> x) @@ @]
    ELSE IF objgen(st.g[x]) # objgen(st.g[st.fhm[digest]])
         THEN [st EXCEPT !.g[xo].ents[i].v = st.fhm[digest],
                         !.log = @ \cup {<<x, st.fhm[digest]>>}]
         ELSE st

\* lines 244-266, from the i-th key of list(xobjects.keys()) on
ProcessXObjects(st, xo, i, depth) ==
    IF st.raised \/ i > Len(st.g[xo].ents) THEN st
    ELSE LET e == st.g[xo].ents[i]
             x == st.g[e.v]
         IN IF e.bad THEN [st EXCEPT !.raised = TRUE]
            ELSE IF x.kind # "stream" \/ x.subtype = ""
            THEN ProcessXObjects(st, xo, i + 1, depth)
            ELSE IF ~SubtypeHas(x.subtype, "/Form")
            THEN ProcessXObjects(st, xo, i + 1, depth)
            ELSE LET form_res == Get(x, "Resources")
                     st1 == IF form_res # null
                            THEN _process_resources(st, form_res, depth + 1)
                            ELSE st
                 IN IF st1.raised THEN st1
                    ELSE IF ~_stream_content_bytes(x).ok
                    THEN ProcessXObjects(st1, xo, i + 1, depth)
                    ELSE ProcessXObjects(MergeForm(st1, xo, i, Digest(x)),
                                         xo, i + 1, depth)

\* lines 233-266; depth counts the frames of _process_resources on the stack
_process_resources(st, resources, depth) ==
    IF depth > RecursionLimit THEN [st EXCEPT !.raised = TRUE]
    ELSE LET st1 == [st EXCEPT !.g[resources].ents = StripProcSet(@)]
             xobjects == Get(st1.g[resources], "XObject")
         IN IF xobjects = null THEN st1
            ELSE ProcessXObjects(st1, xobjects, 1, depth)

(***************************************************************************)
(* optimize_pdf as a state machine.                                        *)
(***************************************************************************)
\* lines 106-108: the stage calls of optimize_pdf, in order
\* the document as it was handed in
doc0 == Doc(input)

StagePlan == <<"images", "forms", "collect">>

\* the document and the locals before the first stage call
InitDoc ==
    /\ input \in Params
    /\ objs = Doc(input)
    /\ mid = objs
    /\ hist = <<>>
    /\ pc = "call"
    /\ run = 1
    /\ scanIdx = 1
    /\ pageIdx = 1
    /\ image_hash_map = EmptyMap
    /\ image_replacements = EmptyMap
    /\ visited = {}
    /\ form_hash_map = EmptyMap
    /\ form_replaced = {}
    /\ walked = <<>>

Init == InitDoc /\ plan = StagePlan

\* optimize_pdf makes its next call
Call ==
    /\ pc = "call"
    /\ plan # <<>>
    /\ plan' = Tail(plan)
    /\ mid' = objs
    /\ \/ /\ Head(plan) = "images"
          /\ pc' = "scan"
          /\ scanIdx' = 1
          /\ image_hash_map' = EmptyMap
          /\ image_replacements' = EmptyMap
          /\ UNCHANGED <<pageIdx, form_hash_map>>
       \/ /\ Head(plan) = "forms"
          /\ pc' = "san"
          /\ pageIdx' = 1
          /\ form_hash_map' = EmptyMap
          /\ UNCHANGED <<scanIdx, image_hash_map, image_replacements>>
       \/ /\ Head(plan) = "collect"
          /\ pc' = "gc"
          /\ UNCHANGED <<scanIdx, pageIdx, image_hash_map,
                         image_replacements, form_hash_map>>
    /\ UNCHANGED <<objs, run, visited, input, hist, form_replaced,
                   walked>>

\* lines 152-166: one object of pdf.objects
ScanStep ==
    /\ pc = "scan"
    /\ scanIdx <= Len(ObjOrder)
    /\ LET r == ScanBody(image_hash_map, image_replacements, objs,
                         ObjOrder[scanIdx])
       IN /\ image_hash_map' = r.hm
          /\ image_replacements' = r.rp
    /\ scanIdx' = scanIdx + 1
    /\ UNCHANGED <<objs, pc, plan, run, pageIdx, visited, form_hash_map,
                   input, mid, hist, form_replaced,
                   walked>>

\* mutant: the early return leaves optimize_pdf altogether
NoDuplicatesLeaves ==
    /\ pc = "scan"
    /\ scanIdx > Len(ObjOrder)
    /\ DOMAIN image_replacements = {}
    /\ pc' = "call"
    /\ plan' = <<>>
    /\ UNCHANGED <<objs, run, scanIdx, pageIdx, image_hash_map,
                   image_replacements, visited, form_hash_map, input, mid,
                   hist, form_replaced,
                   walked>>

\* lines 168-169: no duplicate was found, _deduplicate_images returns
NoDuplicates ==
    /\ pc = "scan"
    /\ scanIdx > Len(ObjOrder)
    /\ DOMAIN image_replacements = {}
    /\ pc' = "call"
    /\ UNCHANGED <<objs, plan, run, scanIdx, pageIdx, image_hash_map,
                   image_replacements, visited, form_hash_map, input, mid,
                   hist, form_replaced,
                   walked>>

\* line 172: the walk begins with an empty visited set
BeginRewrite ==
    /\ pc = "scan"
    /\ scanIdx > Len(ObjOrder)
    /\ DOMAIN image_replacements # {}
    /\ pc' = "walk"
    /\ visited' = {}
    /\ walked' = <<>>
    /\ pageIdx' = 1
    /\ UNCHANGED <<objs, plan, run, scanIdx, image_hash_map,
                   image_replacements, form_hash_map, input, mid, hist,
                   form_replaced>>

\* mutant: the walk starts from the objects of pdf.objects, not the pages
WalkEveryObject ==
    /\ pc = "walk"
    /\ pageIdx <= Len(PageOrder)
    /\ LET st == _walk([g |-> objs, vis |-> visited, log |-> walked],
                       image_replacements, ObjOrder[pageIdx])
       IN /\ objs' = st.g
          /\ visited' = st.vis
          /\ walked' = st.log
    /\ pageIdx' = pageIdx + 1
    /\ UNCHANGED <<pc, plan, run, scanIdx, image_hash_map,
                   image_replacements, form_hash_map, input, mid, hist,
                   form_replaced>>

\* mutant: every page is walked with a visited set of its own
WalkPageFreshVisited ==
    /\ pc = "walk"
    /\ pageIdx <= Len(PageOrder)
    /\ LET st == _walk([g |-> objs, vis |-> {}, log |-> walked],
                       image_replacements, PageOrder[pageIdx])
       IN /\ objs' = st.g
          /\ visited' = st.vis
          /\ walked' = st.log
    /\ pageIdx' = pageIdx + 1
    /\ UNCHANGED <<pc, plan, run, scanIdx, image_hash_map,
                   image_replacements, form_hash_map, input, mid, hist,
                   form_replaced>>

\* lines 215-216: the walk of one page
WalkPage ==
    /\ pc = "walk"
    /\ pageIdx <= Len(PageOrder)
    /\ LET st == _walk([g |-> objs, vis |-> visited, log |-> walked],
                       image_replacements, PageOrder[pageIdx])
       IN /\ objs' = st.g
          /\ visited' = st.vis
          /\ walked' = st.log
    /\ pageIdx' = pageIdx + 1
    /\ UNCHANGED <<pc, plan, run, scanIdx, image_hash_map,
                   image_replacements, form_hash_map, input, mid, hist,
                   form_replaced>>

\* the page loop is over, _deduplicate_images returns
EndRewrite ==
    /\ pc = "walk"
    /\ pageIdx > Len(PageOrder)
    /\ pc' = "call"
    /\ UNCHANGED <<objs, plan, run, scanIdx, pageIdx, image_hash_map,
                   image_replacements, visited, form_hash_map, input, mid,
                   hist, form_replaced,
                   walked>>

\* lines 268-271: the resources of one page; an exception leaves optimize_pdf
SanitizePage ==
    /\ pc = "san"
    /\ pageIdx <= Len(PageOrder)
    /\ LET resources == Get(objs[PageOrder[pageIdx]], "Resources")
           st0 == [g |-> objs, fhm |-> form_hash_map, raised |-> FALSE,
                   log |-> form_replaced]
           st == IF resources # null
                 THEN _process_resources(st0, resources, 1)
                 ELSE st0
       IN /\ objs' = st.g
          /\ form_hash_map' = st.fhm
          /\ form_replaced' = st.log
          /\ pc' = IF st.raised THEN "raised" ELSE "san"
    /\ pageIdx' = pageIdx + 1
    /\ UNCHANGED <<plan, run, scanIdx, image_hash_map, image_replacements,
                   visited, input, mid, hist, walked>>

\* the page loop is over, _strip_and_dedup_resources returns
EndSanitize ==
    /\ pc = "san"
    /\ pageIdx > Len(PageOrder)
    /\ pc' = "call"
    /\ UNCHANGED <<objs, plan, run, scanIdx, pageIdx, image_hash_map,
                   image_replacements, visited, form_hash_map, input, mid,
                   hist, form_replaced,
                   walked>>

\* line 108: pdf.remove_unreferenced_resources() drops the resource entries
\* no content stream names; every entry of the model's documents is named
\* by its content stream, so the call leaves the document as it is
Collect ==
    /\ pc = "gc"
    /\ pc' = "call"
    /\ UNCHANGED <<objs, plan, run, scanIdx, pageIdx, image_hash_map,
                   image_replacements, visited, form_hash_map, input, mid,
                   hist, form_replaced,
                   walked>>

\* optimize_pdf returns
Return ==
    /\ pc = "call"
    /\ plan = <<>>
    /\ pc' = "done"
    /\ hist' = Append(hist, objs)
    /\ UNCHANGED <<objs, plan, run, scanIdx, pageIdx, image_hash_map,
                   image_replacements, visited, form_hash_map, input, mid,
                   form_replaced,
                   walked>>

\* the caller runs optimize_pdf again on the same document
Again ==
    /\ pc = "done"
    /\ run < MaxRuns
    /\ run' = run + 1
    /\ pc' = "call"
    /\ plan' = StagePlan
    /\ UNCHANGED <<objs, scanIdx, pageIdx, image_hash_map,
                   image_replacements, visited, form_hash_map, input, mid,
                   hist, form_replaced,
                   walked>>

Next ==
    \/ Call
    \/ ScanStep
    \/ NoDuplicates
    \/ BeginRewrite
    \/ WalkPage
    \/ EndRewrite
    \/ SanitizePage
    \/ EndSanitize
    \/ Collect
    \/ Return
    \/ Again

Spec == Init /\ [][Next]_vars

\* the two functions of optimize_pdf called in the other order: the
\* sanitizer before the image deduplication
SwappedPlan == <<"forms", "images", "collect">>

SanFirstInit == InitDoc /\ plan = SwappedPlan

SanFirstSpec == SanFirstInit /\ [][Next]_vars

(***************************************************************************)
(* Reachability and digests, for the properties below.                     *)
(***************************************************************************)
Handles == DOMAIN objs

\* the handles an object references
Children(g, h) == {g[h].ents[i].v : i \in 1..Len(g[h].ents)}

RECURSIVE ReachFrom(_, _, _)
ReachFrom(g, seen, frontier) ==
    IF frontier = {} THEN seen
    ELSE ReachFrom(g, seen \cup frontier,
                   (UNION {Children(g, h) : h \in frontier})
                       \ (seen \cup frontier))

\* the objects reachable from a root, the root included
Reach(g, root) == ReachFrom(g, {}, {root})

Pages == {PageOrder[i] : i \in 1..Len(PageOrder)}

\* the objects reachable from some page
PageReach(g) == UNION {Reach(g, pg) : pg \in Pages}

\* the distinct digests of the image streams reachable from a page
PageDigests(g, pg) ==
    {Digest(g[h]) : h \in {x \in Reach(g, pg) : IsHashableImage(g[x])}}

\* optimize_pdf has returned from its first call
FirstRunDone == pc = "done" /\ run = 1

(***************************************************************************)
(* C1: content preservation.  When optimize_pdf has returned, every page   *)
(* reaches image streams of exactly the digests it reached before the      *)
(* call.  (Stated as the claim has it; the optimizer merges two images of  *)
(* equal bytes whatever their /SMask, and two forms of equal bytes         *)
(* whatever their resources, so a page can lose a digest.)                 *)
(***************************************************************************)
C1_ContentPreserved ==
    FirstRunDone =>
        \A pg \in Pages : PageDigests(objs, pg) = PageDigests(doc0, pg)

\* _deduplicate_images has returned and the sanitizer is the next call
ImageStageDone == pc = "call" /\ plan = <<"forms", "collect">>

\* the entries of h that reference a key of the replacement map
StaleEntries(g, h) ==
    {i \in 1..Len(g[h].ents) :
        objgen(g[g[h].ents[i].v]) \in DOMAIN image_replacements}

(***************************************************************************)
(* C2: no dangling duplicates.  When the image stage has returned, no      *)
(* object reachable from a page references a key of the replacement map.   *)
(* (Stated as the claim has it; the walk does not enter the canonical      *)
(* object it writes into an entry, so a canonical object reached only that *)
(* way keeps the references of its own dictionary.)                        *)
(***************************************************************************)
C2_NoReferenceToDuplicate ==
    ImageStageDone =>
        \A h \in PageReach(objs) : StaleEntries(objs, h) = {}

(***************************************************************************)
(* C3: idempotence.  A second call of optimize_pdf leaves every object     *)
(* reachable from a page, and every page's digests, as the first call left *)
(* them.  (Stated as the claim has it; the second call walks into the      *)
(* canonical objects the first one substituted and rewrites them.)         *)
(***************************************************************************)
C3_SecondRunChangesNothing ==
    (pc = "done" /\ run = 2) =>
        /\ PageReach(objs) = PageReach(hist[1])
        /\ \A h \in PageReach(objs) : objs[h] = hist[1][h]
        /\ \A pg \in Pages : PageDigests(objs, pg) = PageDigests(hist[1], pg)

\* _strip_and_dedup_resources has returned and the collector is the next call
SanitizerDone == pc = "call" /\ plan = <<"collect">>

IsForm(o) ==
    o.kind = "stream" /\ o.subtype # "" /\ SubtypeHas(o.subtype, "/Form")

HasProcSet(g, r) == r # null /\ Get(g[r], "ProcSet") # null

\* the forms listed under /XObject of a resources dictionary
ResourceForms(g, r) ==
    IF r = null \/ Get(g[r], "XObject") = null THEN {}
    ELSE {x \in Children(g, Get(g[r], "XObject")) : IsForm(g[x])}

RECURSIVE FormsFrom(_, _, _)
FormsFrom(g, seen, frontier) ==
    IF frontier = {} THEN seen
    ELSE FormsFrom(g, seen \cup frontier,
                   (UNION {ResourceForms(g, Get(g[f], "Resources")) :
                              f \in frontier}) \ (seen \cup frontier))

\* the forms a page reaches through /Resources -> /XObject entries alone
XObjectForms(g, pg) ==
    FormsFrom(g, {}, ResourceForms(g, Get(g[pg], "Resources")))

\* the forms a page reaches through any path
ReachableForms(g, pg) == {h \in Reach(g, pg) : IsForm(g[h])}

(***************************************************************************)
(* C4, as claimed: when the sanitizer has returned, the resources of every *)
(* page and of every form reachable from a page hold no /ProcSet, forms    *)
(* reachable only through a pattern's resources included.                  *)
(***************************************************************************)
C4_NoProcSetAnywhere ==
    SanitizerDone =>
        \A pg \in Pages :
            /\ ~HasProcSet(objs, Get(objs[pg], "Resources"))
            /\ \A f \in ReachableForms(objs, pg) :
                   ~HasProcSet(objs, Get(objs[f], "Resources"))

(***************************************************************************)
(* C4, amended: when the sanitizer has returned, the resources of every    *)
(* page and of every form a page reaches through /Resources -> /XObject    *)
(* entries (forms nested in forms included) hold no /ProcSet.              *)
(***************************************************************************)
C4_NoProcSetOnXObjectPath ==
    SanitizerDone =>
        \A pg \in Pages :
            /\ ~HasProcSet(objs, Get(objs[pg], "Resources"))
            /\ \A f \in XObjectForms(objs, pg) :
                   ~HasProcSet(objs, Get(objs[f], "Resources"))

\* the sanitizer has returned on a document whose first page had a /ProcSet
\* and reaches a nested form whose resources had one, and whose second page
\* had none
C4_Witness ==
    /\ SanitizerDone
    /\ HasProcSet(doc0, Get(doc0["Pg1"], "Resources"))
    /\ ~HasProcSet(doc0, Get(doc0["Pg2"], "Resources"))
    /\ \E f \in XObjectForms(objs, "Pg1") :
           /\ f \notin ResourceForms(objs, Get(objs["Pg1"], "Resources"))
           /\ HasProcSet(doc0, Get(doc0[f], "Resources"))

\* the resources of a form or page, as a set of <<key, value>>, with the
\* entries of its /XObject dictionary left out
OtherResources(g, h) ==
    LET r == Get(g[h], "Resources") IN
    IF r = null THEN {}
    ELSE {<<g[r].ents[i].k, g[r].ents[i].v>> :
             i \in {j \in 1..Len(g[r].ents) : g[r].ents[j].k # "XObject"}}

\* the /XObject dictionary of the resources of a form or page
XObjectsOf(g, h) ==
    IF Get(g[h], "Resources") = null THEN null
    ELSE Get(g[Get(g[h], "Resources")], "XObject")

\* two entries reference two copies of one image
CopiesOfOneImage(g, a, b) ==
    /\ a # b
    /\ IsHashableImage(g[a]) /\ IsHashableImage(g[b])
    /\ Digest(g[a]) = Digest(g[b])

\* two forms of equal content bytes whose resources differ only in which
\* copy of an image an /XObject entry references
DifferOnlyInImageCopy(g, f1, f2) ==
    /\ f1 # f2 /\ IsForm(g[f1]) /\ IsForm(g[f2])
    /\ _stream_content_bytes(g[f1]).ok /\ _stream_content_bytes(g[f2]).ok
    /\ Digest(g[f1]) = Digest(g[f2])
    /\ OtherResources(g, f1) = OtherResources(g, f2)
    /\ XObjectsOf(g, f1) # null /\ XObjectsOf(g, f2) # null
    /\ LET x1 == g[XObjectsOf(g, f1)].ents
           x2 == g[XObjectsOf(g, f2)].ents
       IN /\ Len(x1) = Len(x2)
          /\ \A i \in 1..Len(x1) :
                 /\ x1[i].k = x2[i].k
                 /\ \/ x1[i].v = x2[i].v
                    \/ CopiesOfOneImage(g, x1[i].v, x2[i].v)
          /\ \E i \in 1..Len(x1) : x1[i].v # x2[i].v

\* the forms the /XObject entries of a page reference
FormsOnPage(g, pg) == ResourceForms(g, Get(g[pg], "Resources"))

\* the sanitizer, called first, has returned
SanitizerFirstDone == pc = "call" /\ plan = <<"images", "collect">>

(***************************************************************************)
(* C5: order dependency.  First half, under Spec: two forms on different   *)
(* pages that differ only in which copy of an image they reference are one *)
(* form after image deduplication, rewrite and sanitizer.                  *)
(***************************************************************************)
C5_PipelineMerges ==
    (SanitizerDone /\ run = 1) =>
        \A f1 \in FormsOnPage(doc0, "Pg1"), f2 \in FormsOnPage(doc0, "Pg2") :
            DifferOnlyInImageCopy(doc0, f1, f2) =>
                FormsOnPage(objs, "Pg1") = FormsOnPage(objs, "Pg2")

(***************************************************************************)
(* C5, second half, under SanFirstSpec: when the sanitizer runs before the *)
(* image deduplication it does not merge two such forms.  (Stated as the   *)
(* claim has it; the sanitizer compares content bytes alone and merges     *)
(* them in either order.)                                                  *)
(***************************************************************************)
C5_SanitizerFirstKeepsBoth ==
    (SanitizerFirstDone /\ run = 1) =>
        \A f1 \in FormsOnPage(doc0, "Pg1"), f2 \in FormsOnPage(doc0, "Pg2") :
            DifferOnlyInImageCopy(doc0, f1, f2) =>
                /\ f1 \in FormsOnPage(objs, "Pg1")
                /\ f2 \in FormsOnPage(objs, "Pg2")

\* the pipeline has merged two forms that differed only in the image copy
C5_Witness ==
    /\ SanitizerDone /\ run = 1
    /\ \E f1 \in FormsOnPage(doc0, "Pg1"), f2 \in FormsOnPage(doc0, "Pg2") :
           /\ DifferOnlyInImageCopy(doc0, f1, f2)
           /\ FormsOnPage(objs, "Pg1") = FormsOnPage(objs, "Pg2")

\* the scan of pdf.objects is over
ScanComplete == scanIdx > Len(ObjOrder)

\* the handles of the image streams the scan was able to hash
HashedImages == {h \in Handles : IsHashableImage(objs[h])}

(***************************************************************************)
(* C6: encoding-independent digest.  When the scan is over, two image      *)
(* streams of equal decoded payload lie under one digest, so they share    *)
(* their canonical object, however each is stored.  (Stated as the claim   *)
(* has it; the code hashes the stored bytes when it can read them, and     *)
(* these depend on the filter.)                                            *)
(***************************************************************************)
C6_EqualPayloadEqualDigest ==
    ScanComplete =>
        \A a \in HashedImages, b \in HashedImages :
            objs[a].payload = objs[b].payload =>
                /\ Digest(objs[a]) = Digest(objs[b])
                /\ image_hash_map[Digest(objs[a])]
                       = image_hash_map[Digest(objs[b])]

\* the objects the scan has been through, in order
ScannedImages ==
    {i \in 1..(scanIdx - 1) : IsHashableImage(objs[ObjOrder[i]])}

\* the position of the first scanned hashable image of the digest of i
FirstOfDigest(i) ==
    CHOOSE j \in ScannedImages :
        /\ Digest(objs[ObjOrder[j]]) = Digest(objs[ObjOrder[i]])
        /\ \A k \in ScannedImages :
               Digest(objs[ObjOrder[k]]) = Digest(objs[ObjOrder[i]]) => j <= k

\* the values of a map
Range(f) == {f[x] : x \in DOMAIN f}

(***************************************************************************)
(* C7: first seen wins.  At every point of the scan and after it, the      *)
(* canonical object of a digest is the first hashable image stream of that *)
(* digest in the order of pdf.objects, and every later hashable image      *)
(* stream of that digest is a key of the replacement map, mapped to that   *)
(* canonical object.  The first object of a digest being fixed by the      *)
(* document, the canonical object of a digest never changes.               *)
(***************************************************************************)
C7_FirstSeenWins ==
    /\ DOMAIN image_hash_map
           = {Digest(objs[ObjOrder[i]]) : i \in ScannedImages}
    /\ \A i \in ScannedImages :
           LET h == ObjOrder[i]
               c == ObjOrder[FirstOfDigest(i)]
           IN /\ image_hash_map[Digest(objs[h])] = c
              /\ (h # c) =>
                     /\ objgen(objs[h]) \in DOMAIN image_replacements
                     /\ image_replacements[objgen(objs[h])] = c
              /\ (h = c) => objgen(objs[h]) \notin DOMAIN image_replacements

\* the scan is over and the third image of a digest was mapped to the first
C7_Witness ==
    /\ ScanComplete
    /\ \E i \in ScannedImages, j \in ScannedImages, k \in ScannedImages :
           /\ i < j /\ j < k
           /\ FirstOfDigest(j) = i /\ FirstOfDigest(k) = i
           /\ image_replacements[objgen(objs[ObjOrder[k]])] = ObjOrder[i]

(***************************************************************************)
(* C8: no self-replacement.  At every point, no key of the replacement map *)
(* is the identity of the object it is mapped to, and no form entry was    *)
(* rewritten to the form it already referenced.                            *)
(***************************************************************************)
C8_NoSelfReplacement ==
    /\ \A og \in DOMAIN image_replacements :
           objgen(objs[image_replacements[og]]) # og
    /\ \A r \in form_replaced : objgen(objs[r[1]]) # objgen(objs[r[2]])

\* the second call meets a canonical form again under the entry it rewrote,
\* while the replacement map holds duplicates
C8_Witness ==
    /\ run = 2 /\ pc = "done"
    /\ DOMAIN image_replacements # {}
    /\ \E r \in form_replaced :
           /\ r[2] \in FormsOnPage(objs, "Pg1")
           /\ r[2] \in FormsOnPage(objs, "Pg2")

\* a stream neither read strategy can read
Unhashable(o) == o.kind = "stream" /\ ~_stream_content_bytes(o).ok

\* some form reaches itself through /Resources -> /XObject entries
FormCycle(g) ==
    \E f \in DOMAIN g :
        /\ IsForm(g[f])
        /\ f \in FormsFrom(g, {}, ResourceForms(g, Get(g[f], "Resources")))

(***************************************************************************)
(* C9: unhashable streams.  An image or form stream whose bytes cannot be  *)
(* read is never a canonical object and never a key of the replacement     *)
(* map, and every entry that referenced it still does; the hashable images *)
(* are deduplicated all the same once the scan is over, and an exception   *)
(* leaves the optimizer only on a document whose form resources are        *)
(* cyclic, never because of an unreadable stream.                          *)
(***************************************************************************)
C9_UnhashableSkipped ==
    /\ \A h \in Handles :
           Unhashable(objs[h]) =>
               /\ h \notin Range(image_hash_map)
               /\ objgen(objs[h]) \notin DOMAIN image_replacements
               /\ h \notin Range(form_hash_map)
               /\ \A r \in form_replaced : r[1] # h /\ r[2] # h
               /\ \A d \in Handles : \A i \in 1..Len(doc0[d].ents) :
                      doc0[d].ents[i].v = h =>
                          Get(objs[d], doc0[d].ents[i].k) = h
    /\ ScanComplete =>
           \A a \in HashedImages, b \in HashedImages :
               (objs[a].num < objs[b].num
                    /\ Digest(objs[a]) = Digest(objs[b])) =>
                   objgen(objs[b]) \in DOMAIN image_replacements
    /\ pc = "raised" => FormCycle(doc0)

\* optimize_pdf has returned on a document in which a page references an
\* unreadable image and another an unreadable form, or the scan found
\* duplicates beside an unreadable image
C9_Witness ==
    /\ pc = "done"
    /\ \/ /\ \E h \in PageReach(objs) :
                 Unhashable(objs[h]) /\ SubtypeHas(objs[h].subtype, "/Image")
          /\ DOMAIN image_replacements # {}
       \/ /\ \E h \in FormsOnPage(objs, "Pg2") : Unhashable(objs[h])
          /\ DOMAIN image_replacements # {}

\* the document holds no duplicate image: the scan left the map empty
NoDuplicateFound == ScanComplete /\ DOMAIN image_replacements = {}

\* two distinct hashable forms of one digest
DuplicateForms(g, f1, f2) ==
    /\ f1 # f2
    /\ ~Unhashable(g[f1]) /\ ~Unhashable(g[f2])
    /\ Digest(g[f1]) = Digest(g[f2])

(***************************************************************************)
(* C10: early exit.  When the scan leaves the replacement map empty, the   *)
(* image stage returns with the document as it found it, and the sanitizer *)
(* runs all the same: when optimize_pdf returns, no page resources hold a  *)
(* /ProcSet and no two pages list distinct hashable forms of one digest.   *)
(***************************************************************************)
C10_EarlyExitThenSanitizer ==
    /\ (ImageStageDone /\ NoDuplicateFound) => objs = mid
    /\ (pc = "done" /\ NoDuplicateFound) =>
           /\ \A pg \in Pages : ~HasProcSet(objs, Get(objs[pg], "Resources"))
           /\ \A f1 \in FormsOnPage(objs, "Pg1"),
                 f2 \in FormsOnPage(objs, "Pg2") :
                  ~DuplicateForms(objs, f1, f2)

\* optimize_pdf has returned from a run without duplicate images, on a
\* document whose first page had a /ProcSet and whose pages listed two
\* forms of one digest
C10_Witness ==
    /\ pc = "done" /\ run = 1
    /\ NoDuplicateFound
    /\ HasProcSet(doc0, Get(doc0["Pg1"], "Resources"))
    /\ \E f1 \in FormsOnPage(doc0, "Pg1"), f2 \in FormsOnPage(doc0, "Pg2") :
           DuplicateForms(doc0, f1, f2) /\ <<f2, f1>> \in form_replaced

\* the document as the current call of optimize_pdf received it
RunStart == IF run = 1 THEN doc0 ELSE hist[run - 1]

(***************************************************************************)
(* C11: frame of the traversals.  At every step of optimize_pdf, an object *)
(* that no page reached when the call began is exactly as it was then: its *)
(* entries, elements and stream are untouched by the rewrite and by the    *)
(* sanitizer.                                                              *)
(***************************************************************************)
C11_UnreachableUntouched ==
    \A h \in Handles \ PageReach(RunStart) : objs[h] = RunStart[h]

\* the sanitizer has returned from a call that changed the document, and an
\* object no page reached still references a key of the replacement map
C11_Witness ==
    /\ SanitizerDone
    /\ objs # RunStart
    /\ \E h \in Handles \ PageReach(RunStart) : StaleEntries(objs, h) # {}

\* in g, page 1 reaches image a only through its pattern's resources and
\* page 2 lists b, a distinct image of the same bytes, directly
NestedPatternScenario(g, a, b) ==
    /\ Get(g["Res1"], "Pattern") # null
    /\ a = Get(g["PTX"], "Im0") /\ b = Get(g["XO2"], "Im0")
    /\ a # null /\ b # null /\ a # b
    /\ a \notin Reach([g EXCEPT !["Res1"].ents =
                         SelectSeq(@, LAMBDA e : e.k # "Pattern")], "Pg1")
    /\ IsHashableImage(g[a]) /\ IsHashableImage(g[b])
    /\ Digest(g[a]) = Digest(g[b])

(***************************************************************************)
(* C12: nested pattern.  When page 1 reaches an image only through         *)
(* /Resources, /Pattern, the pattern's /Resources and its /XObject, and    *)
(* page 2 lists a byte-identical copy directly, then once the image stage  *)
(* has returned the two entries reference one and the same object.         *)
(***************************************************************************)
C12_NestedPatternMerged ==
    (ImageStageDone \/ pc = "done") =>
        \A a, b \in Handles :
            NestedPatternScenario(doc0, a, b) =>
                Get(objs["PTX"], "Im0") = Get(objs["XO2"], "Im0")

\* the image stage has returned on such a document, and the image both
\* entries reference is none of the images page 1 listed directly
C12_Witness ==
    /\ ImageStageDone
    /\ \E a, b \in Handles : NestedPatternScenario(doc0, a, b)
    /\ Get(objs["PTX"], "Im0") # Get(doc0["PTX"], "Im0")
    /\ Get(objs["PTX"], "Im0") # Get(doc0["XO1"], "Im0")

\* the inline dictionaries and arrays of g
Inline(g, h) == g[h].kind \in {"dict", "array"} /\ ~Tracked(objgen(g[h]))

\* the handles an object references through entries that can be read
ReadableChildren(g, h) ==
    {g[h].ents[i].v : i \in {j \in 1..Len(g[h].ents) : ~g[h].ents[j].bad}}

RECURSIVE ReadReachFrom(_, _, _)
ReadReachFrom(g, seen, frontier) ==
    IF frontier = {} THEN seen
    ELSE ReadReachFrom(g, seen \cup frontier,
                       (UNION {ReadableChildren(g, h) : h \in frontier})
                           \ (seen \cup frontier))

\* the objects some page reaches through entries that can be read
PageReadReach(g) == ReadReachFrom(g, {}, Pages)

\* the walk has run over every page and _deduplicate_images has returned
RewriteDone == ImageStageDone /\ DOMAIN image_replacements # {}

\* the readable entries of h that reference a key of the replacement map
StaleReadable(g, h) == {i \in StaleEntries(g, h) : ~g[h].ents[i].bad}

\* the placeholder identity is never in the visited set
C13_PlaceholderNotTracked == <<0, 0>> \notin visited

(***************************************************************************)
(* C13: the placeholder identity (0, 0) is never added to the visited set, *)
(* and so, when the walk is over, every inline dictionary or array a page  *)
(* reaches has been entered and none of its readable entries references a  *)
(* key of the replacement map.  (Stated as the claim has it; an inline     *)
(* object that follows an unreadable element of an array is never entered, *)
(* because the failing read ends the loop over that array.)                *)
(***************************************************************************)
C13_EveryInlineEntered ==
    /\ C13_PlaceholderNotTracked
    /\ RewriteDone =>
           \A h \in PageReadReach(mid) :
               Inline(mid, h) =>
                   /\ \E i \in 1..Len(walked) : walked[i] = h
                   /\ StaleReadable(objs, h) = {}

\* the same, over the documents whose arrays can all be read
C13_ReadableArraysEntered == input.bada \/ C13_EveryInlineEntered

\* h holds an entry or element whose read raises
HasUnreadable(g, h) == \E i \in 1..Len(g[h].ents) : g[h].ents[i].bad

\* the walk entered h
Entered(h) == \E i \in 1..Len(walked) : walked[i] = h

(***************************************************************************)
(* C14: error locality.  When the walk is over, a dictionary or array it   *)
(* entered that holds an unreadable entry has had every other entry looked *)
(* at: none of its readable entries references a key of the replacement    *)
(* map, and every inline object behind a readable entry has been entered.  *)
(* (Stated as the claim has it; it holds of dictionaries, but a failing    *)
(* read of an array element ends the loop over the whole array.)           *)
(***************************************************************************)
C14_ErrorLocality ==
    RewriteDone =>
        \A h \in Handles :
            (Entered(h) /\ HasUnreadable(mid, h)) =>
                /\ StaleReadable(objs, h) = {}
                /\ \A c \in ReadableChildren(mid, h) :
                       Inline(mid, c) => Entered(c)

\* the same, over the documents whose arrays can all be read
C14_DictLocality == input.bada \/ C14_ErrorLocality

\* the walk is over and has rewritten an entry of a dictionary that follows
\* an unreadable one
C14_DictCase ==
    /\ RewriteDone
    /\ \E h \in Handles :
           /\ Entered(h) /\ HasUnreadable(mid, h) /\ mid[h].kind = "dict"
           /\ objs[h] # mid[h]

(***************************************************************************)
(* Planer.pdf (planer.py), the PDF production path: the browser renders    *)
(* the page to PDF bytes, and when pikepdf was imported the bytes are      *)
(* opened and saved again.  objs is the content of those bytes; hist holds *)
(* the document after every run of optimize_pdf, and Planer.pdf makes none.*)
(***************************************************************************)
\* planer.py lines 47-52: the browser is launched, nothing is rendered yet
PlanerInit ==
    /\ input \in Params
    /\ objs = Doc(input)
    /\ mid = objs
    /\ hist = <<>>
    /\ pc = "render"
    /\ plan = <<>>
    /\ run = 1
    /\ scanIdx = 1
    /\ pageIdx = 1
    /\ image_hash_map = EmptyMap
    /\ image_replacements = EmptyMap
    /\ visited = {}
    /\ form_hash_map = EmptyMap
    /\ form_replaced = {}
    /\ walked = <<>>

\* planer.py lines 80-93: page.pdf(...) returns the bytes, the browser closes
PlanerRender ==
    /\ pc = "render"
    /\ pc' = "rendered"
    /\ UNCHANGED <<objs, plan, run, scanIdx, pageIdx, image_hash_map,
                   image_replacements, visited, form_hash_map, input, mid,
                   hist, form_replaced, walked>>

\* planer.py lines 95-96: pikepdf could not be imported, the bytes are
\* returned as rendered
PlanerReturnRaw ==
    /\ pc = "rendered"
    /\ pc' = "raw"
    /\ UNCHANGED <<objs, plan, run, scanIdx, pageIdx, image_hash_map,
                   image_replacements, visited, form_hash_map, input, mid,
                   hist, form_replaced, walked>>

\* planer.py line 98: pikepdf.open parses the bytes
PlanerOpen ==
    /\ pc = "rendered"
    /\ pc' = "opened"
    /\ objs' = Doc(input)
    /\ mid' = Doc(input)
    /\ UNCHANGED <<plan, run, scanIdx, pageIdx, image_hash_map,
                   image_replacements, visited, form_hash_map, input, hist,
                   form_replaced, walked>>

\* planer.py lines 99-103: the parsed document is saved and returned
PlanerSave ==
    /\ pc = "opened"
    /\ pc' = "saved"
    /\ UNCHANGED <<objs, plan, run, scanIdx, pageIdx, image_hash_map,
                   image_replacements, visited, form_hash_map, input, mid,
                   hist, form_replaced, walked>>

PlanerNext ==
    \/ PlanerRender
    \/ PlanerReturnRaw
    \/ PlanerOpen
    \/ PlanerSave

PlanerSpec == PlanerInit /\ [][PlanerNext]_vars

(***************************************************************************)
(* C15: caller ordering.  On the PDF production path, whenever Planer.pdf  *)
(* has saved the parsed document, a run of optimize_pdf on that document   *)
(* has been completed before.  (Stated as the claim has it; Planer.pdf     *)
(* opens the document and saves it at once, and no code of the repository  *)
(* calls optimize_pdf.)                                                    *)
(***************************************************************************)
C15_OptimizedBeforeSave == pc = "saved" => hist # <<>>

RECURSIVE HashOrder(_, _, _)
\* the hashable forms listed from the i-th entry of the /XObject dictionary
\* xo on, in the order the sanitizer hashes them: the forms of a form's own
\* resources come before the form
HashOrder(g, xo, i) ==
    IF xo = null THEN <<>>
    ELSE IF i > Len(g[xo].ents) THEN <<>>
    ELSE LET x == g[xo].ents[i].v IN
         (IF IsForm(g[x])
          THEN HashOrder(g, XObjectsOf(g, x), 1)
                   \o (IF Unhashable(g[x]) THEN <<>> ELSE <<x>>)
          ELSE <<>>)
         \o HashOrder(g, xo, i + 1)

RECURSIVE TraversalOrder(_, _)
\* the same over the pages from the k-th on
TraversalOrder(g, k) ==
    IF k > Len(PageOrder) THEN <<>>
    ELSE HashOrder(g, XObjectsOf(g, PageOrder[k]), 1)
             \o TraversalOrder(g, k + 1)

\* the first form of a digest in a sequence of forms
FirstForm(g, order, digest) ==
    order[CHOOSE i \in 1..Len(order) :
              /\ Digest(g[order[i]]) = digest
              /\ \A j \in 1..(i - 1) : Digest(g[order[j]]) # digest]

\* the /XObject dictionaries the sanitizer visits: those of the pages and
\* of the forms the pages reach
VisitedXObjects(g) ==
    {XObjectsOf(g, h) :
        h \in Pages \cup UNION {XObjectForms(g, pg) : pg \in Pages}}
        \ {null}

HashableForm(g, x) == IsForm(g[x]) /\ ~Unhashable(g[x])

(***************************************************************************)
(* C16: form deduplication is first-seen-wins and total.  When the         *)
(* sanitizer has returned, every /XObject entry it visited that referenced *)
(* a hashable form references the first form of that digest in traversal   *)
(* order (pages in order, entries in order, the forms of a form's own      *)
(* resources before the form), and no two visited entries reference        *)
(* distinct hashable forms of one digest.                                  *)
(***************************************************************************)
C16_FormsFirstSeenWins ==
    SanitizerDone =>
        LET order == TraversalOrder(mid, 1) IN
        /\ \A xo \in VisitedXObjects(mid) :
               \A i \in 1..Len(mid[xo].ents) :
                   HashableForm(mid, mid[xo].ents[i].v) =>
                       objs[xo].ents[i].v =
                           FirstForm(mid, order, Digest(mid[mid[xo].ents[i].v]))
        /\ \A xo1, xo2 \in VisitedXObjects(mid) :
               \A f1 \in Children(objs, xo1), f2 \in Children(objs, xo2) :
                   ~DuplicateForms(objs, f1, f2)

\* the sanitizer has returned on a document whose first page listed a form
\* of the bytes of its own nested form, and whose second page listed a
\* third form of those bytes: all three entries reference the nested form
C16_Witness ==
    /\ SanitizerDone
    /\ Get(mid["XO1"], "Fm0") = "F1" /\ Get(mid["XO2"], "Fm0") = "F2"
    /\ Get(mid["FX1"], "Fm1") = "G"
    /\ Get(objs["XO1"], "Fm0") = "G" /\ Get(objs["XO2"], "Fm0") = "G"
    /\ Get(objs["FX1"], "Fm1") = "G"


(***************************************************************************)
(* C17: sanitizer termination.  _process_resources never runs out of stack:*)
(* on every document, cyclic form resources included, the recursion stays  *)
(* within the interpreter's limit and the sanitizer returns to             *)
(* optimize_pdf.  (Stated as the claim has it; the recursion into a form's *)
(* resources has no visited set, so a form that reaches itself is entered  *)
(* again and again until the interpreter raises RecursionError.)           *)
(***************************************************************************)
C17_SanitizerTerminates == pc # "raised"

\* the same, over the documents whose form resources hold no cycle
C17_AcyclicTerminates == FormCycle(doc0) \/ C17_SanitizerTerminates

\* the sanitizer has returned on a document with a form nested in a form
C17_AcyclicCase ==
    /\ SanitizerDone
    /\ \E f \in XObjectForms(doc0, "Pg1") :
           f \notin ResourceForms(doc0, Get(doc0["Pg1"], "Resources"))

\* the objects of g that lie on a cycle of references
OnCycle(g, h) == \E c \in Children(g, h) : h \in Reach(g, c)

(***************************************************************************)
(* C18: rewriter termination.  During a pass of the walk and when it is    *)
(* over, no indirect object has been entered twice, every object entered   *)
(* is one a page reached, and the visited set holds exactly the indirect   *)
(* objects entered: a pass enters at most as many objects as the document  *)
(* holds and so ends, cycles through indirect objects (page, parent, kids, *)
(* page) included.                                                         *)
(***************************************************************************)
C18_WalkEntersOnce ==
    (pc = "walk" \/ RewriteDone) =>
        /\ \A i, j \in 1..Len(walked) :
               (i # j /\ walked[i] = walked[j]) =>
                   ~Tracked(objgen(objs[walked[i]]))
        /\ \A i \in 1..Len(walked) : walked[i] \in PageReach(mid)
        /\ Len(walked) <= Cardinality(Handles)
        /\ visited = {objgen(objs[walked[i]]) : i \in 1..Len(walked)}
                         \ {<<0, 0>>}

\* the walk is over on a document whose pages lie on a cycle of references,
\* and has entered both pages and their parent
C18_Witness ==
    /\ RewriteDone
    /\ OnCycle(mid, "Pg1") /\ OnCycle(mid, "Pg2")
    /\ Entered("Pg1") /\ Entered("Pg2") /\ Entered("Pages")
    /\ Entered("Kids")

(***************************************************************************)
(* C19: no replacement chains.  At every step, the canonical object a key  *)
(* of the replacement map is mapped to is not itself a key of the map.     *)
(***************************************************************************)
C19_NoReplacementChain ==
    \A og \in DOMAIN image_replacements :
        objgen(objs[image_replacements[og]]) \notin DOMAIN image_replacements

\* the scan is over and has mapped two duplicates to one canonical image
C19_Witness ==
    /\ ScanComplete
    /\ \E a, b \in DOMAIN image_replacements :
           a # b /\ image_replacements[a] = image_replacements[b]

\* _deduplicate_images is running or has just returned
InImageStage == pc \in {"scan", "walk"} \/ ImageStageDone

\* entry i of h is as it was in g, or referenced a key of the replacement
\* map in g and now references the object the map gives for it
EntryKeptOrReplaced(g, h, i) ==
    LET old == g[h].ents[i]
        new == objs[h].ents[i]
    IN /\ new.k = old.k
       /\ new.bad = old.bad
       /\ \/ new.v = old.v
          \/ /\ objgen(g[old.v]) \in DOMAIN image_replacements
             /\ new.v = image_replacements[objgen(g[old.v])]

(***************************************************************************)
(* C20: rewriter frame.  While _deduplicate_images runs and when it has    *)
(* returned, every object has the keys, the length and the stream it had   *)
(* when the stage began, and an entry or element that differs referenced a *)
(* key of the replacement map and now references that key's canonical      *)
(* object.                                                                 *)
(***************************************************************************)
C20_RewriterFrame ==
    InImageStage =>
        \A h \in Handles :
            /\ [objs[h] EXCEPT !.ents = <<>>] = [mid[h] EXCEPT !.ents = <<>>]
            /\ Len(objs[h].ents) = Len(mid[h].ents)
            /\ \A i \in 1..Len(mid[h].ents) : EntryKeptOrReplaced(mid, h, i)

\* the walk is over and has rewritten the image entries of nested inline
\* dictionaries and an element of an inline array, and left the entries
\* beside them as they were
C20_Witness ==
    /\ RewriteDone
    /\ objs["D3"].ents[1].v # mid["D3"].ents[1].v
    /\ objs["D3"].ents[2] = mid["D3"].ents[2]
    /\ objs["D1"].ents[1] = mid["D1"].ents[1]
    /\ LET n == Len(mid["D1"].ents)
       IN objs["D1"].ents[n] # mid["D1"].ents[n]
    /\ \E i \in 1..Len(mid["A1"].ents) :
           objs["A1"].ents[i] # mid["A1"].ents[i]

====
